---- MODULE Spec2Model ----
(***************************************************************************)
(* Model of convert_video_to_h265 (src/code/video_converter.cpp).          *)
(*                                                                         *)
(* The function is one sequential routine.  Each action below is one       *)
(* statement (one library call with the branch the code takes on its       *)
(* result).  The libraries (libavformat, libavcodec, libswscale) are the   *)
(* environment: every call may succeed or fail, the decoder and the        *)
(* encoder may hold frames back, and an allocation may return NULL.        *)
(***************************************************************************)
EXTENDS Integers, Sequences, FiniteSets, TLC

\* ------------------------------------------------------------------ bounds
\* Longest input, in packets, that av_read_frame delivers.
MaxPackets == 2
\* Largest presentation timestamp a packet of the input carries.
MaxPts == 1
\* Largest denominator of a time base 1/d.
MaxTb == 2

\* AV_NOPTS_VALUE is INT64_MIN in libavutil: the least timestamp there is.
\* Here it is a value below every timestamp the model can compute.
AV_NOPTS_VALUE == -1000000

\* oformat->flags & AVFMT_NOFILE of the "mp4" muxer the code asks for.
AVFMT_NOFILE == FALSE

\* ------------------------------------------------------------------- state
VARIABLES
    pc,          \* position in convert_video_to_h265
    h,           \* each handle variable: "null", "live" or "dangling"
    acq,         \* the resources acquired so far
    relLog,      \* the resources released, in the order of their release
    faults,      \* the statements that had undefined behaviour
    err,         \* the failure the call reported ("none" when none)
    ret,         \* the sign of the local variable ret: "ok", "again", "err"
    hasVideo,    \* the input holds a video stream
    nRead,       \* packets read from the input so far
    nVideoIn,    \* packets of the selected video stream read so far
    readFailed,  \* av_read_frame failed before the end of the input
    pktIn,       \* packet_in
    decPending,  \* timestamps of the frames the decoder holds
    decReady,    \* how many of them the decoder is willing to emit now
    frameDec,    \* frame_decoded
    convPts,     \* frame_converted->pts
    encHeld,     \* timestamps of the frames the encoder holds
    encReady,    \* how many packets the encoder is willing to emit now
    pktOut,      \* packet_out
    emitted,     \* timestamps of the packets the encoder emitted, in order
    written,     \* timestamps of the packets written to the output, in order
    header,      \* number of avformat_write_header calls that succeeded
    trailer,     \* number of av_write_trailer calls
    encTb,       \* enc_ctx->time_base
    outTb,       \* out_stream->time_base
    tbSet,       \* number of assignments to out_stream->time_base by the code
    sinkLog,     \* the steps of sink setup that succeeded, in order
    fatal,       \* a fatal error occurred inside the loop
    postFatal,   \* the reads, writes and trailer writes made after it
    pass,        \* how many times the cleanup sequence was entered
    snap         \* handles, release log and faults when it was entered again

resVars  == <<h, acq, relLog>>
loopVars == <<ret, nRead, nVideoIn, readFailed, pktIn, decPending, decReady,
              frameDec, convPts, encHeld, encReady, pktOut, emitted, written,
              fatal, postFatal>>
muxVars  == <<header, trailer, encTb, outTb, tbSet, sinkLog>>
runVars  == <<hasVideo, pass, snap>>
vars     == <<pc, faults, err, resVars, loopVars, muxVars, runVars>>

Resources ==
    {"in_fmt_ctx", "dec_ctx", "out_fmt_ctx", "enc_ctx", "pb", "sws_ctx", "image",
     "frame_decoded", "frame_converted", "packet_in", "packet_out"}

TimeBases == {[num |-> 1, den |-> d] : d \in 1..MaxTb}
NoTb      == [num |-> 0, den |-> 1]
PtsVals   == {AV_NOPTS_VALUE} \cup (-1..MaxPts)

BlankIn    == [ref |-> FALSE, video |-> FALSE, pts |-> 0]
BlankOut   == [ref |-> FALSE, pts |-> 0, done |-> <<>>]
BlankFrame == [ref |-> FALSE, pts |-> 0]

\* ----------------------------------------------------------------- helpers
Range(s) == {s[i] : i \in 1..Len(s)}

RECURSIVE Count(_, _)
Count(r, s) == IF s = <<>> THEN 0
               ELSE (IF Head(s) = r THEN 1 ELSE 0) + Count(r, Tail(s))

\* A handle acquired: the variable now points to a live object.
Acquire(r) ==
    /\ h' = [h EXCEPT ![r] = "live"]
    /\ acq' = acq \cup {r}
    /\ UNCHANGED relLog

\* avformat_free_context(out_fmt_ctx) and sws_freeContext(sws_ctx) take the
\* pointer by value, so the variable keeps pointing to the freed object; the
\* other release functions take the address of the variable and null it.
ByValue == {"out_fmt_ctx", "sws_ctx"}
AfterFree(r) == IF r \in ByValue THEN "dangling" ELSE "null"

\* The release calls of an early return, in the order of the code.
ReleaseAll(rs) ==
    /\ relLog' = relLog \o rs
    /\ h' = [r \in Resources |-> IF r \in Range(rs) THEN AfterFree(r) ELSE h[r]]
    /\ UNCHANGED acq

\* An initialization step failed: report, release rs, return.
FailReturn(e, rs) ==
    /\ err' = e
    /\ ReleaseAll(rs)
    /\ pc' = "returned"

\* av_rescale_rnd with the sign of a negative timestamp lost.
av_rescale_rnd_NoSign(a, b, c) ==
    IF a < 0 THEN (-a * b + (c \div 2)) \div c
    ELSE (a * b + (c \div 2)) \div c

\* av_rescale_rnd(a, b, c, AV_ROUND_NEAR_INF): a*b/c rounded to the nearest
\* integer, halves away from zero.
RECURSIVE av_rescale_rnd(_, _, _)
av_rescale_rnd(a, b, c) ==
    IF a < 0 THEN -av_rescale_rnd(-a, b, c)
    ELSE (a * b + (c \div 2)) \div c

\* av_rescale_q(a, bq, cq) = a * bq / cq.
av_rescale_q(a, bq, cq) == av_rescale_rnd(a, bq.num * cq.den, cq.num * bq.den)

\* The pts part of av_packet_rescale_ts: AV_NOPTS_VALUE is left alone.
av_packet_rescale_ts(pts, bq, cq) ==
    IF pts = AV_NOPTS_VALUE THEN pts ELSE av_rescale_q(pts, bq, cq)

\* ------------------------------------------------------------------ Init
Init ==
    /\ pc = "open_input"
    /\ h = [r \in Resources |-> "null"]
    /\ acq = {}
    /\ relLog = <<>>
    /\ faults = {}
    /\ err = "none"
    /\ ret = "ok"
    /\ hasVideo \in BOOLEAN
    /\ nRead = 0
    /\ nVideoIn = 0
    /\ readFailed = FALSE
    /\ pktIn = BlankIn
    /\ decPending = <<>>
    /\ decReady = 0
    /\ frameDec = BlankFrame
    /\ convPts = 0
    /\ encHeld = <<>>
    /\ encReady = 0
    /\ pktOut = BlankOut
    /\ emitted = <<>>
    /\ written = <<>>
    /\ header = 0
    /\ trailer = 0
    /\ encTb = NoTb
    /\ outTb = NoTb
    /\ tbSet = 0
    /\ sinkLog = <<>>
    /\ fatal = FALSE
    /\ postFatal = {}
    /\ pass = 0
    /\ snap = [h |-> h, relLog |-> relLog, faults |-> faults]

\* ------------------------------------------------- stage 1: source opener
\* Lines 17-21.
avformat_open_input ==
    /\ pc = "open_input"
    /\ \/ /\ Acquire("in_fmt_ctx")
          /\ pc' = "find_stream_info"
          /\ UNCHANGED err
       \/ FailReturn("OpenInputError", <<>>)
    /\ UNCHANGED <<faults, loopVars, muxVars, runVars>>

\* Lines 22-26.
avformat_find_stream_info ==
    /\ pc = "find_stream_info"
    /\ \/ /\ pc' = "find_best_stream"
          /\ UNCHANGED <<err, resVars>>
       \/ FailReturn("StreamProbeError", <<"in_fmt_ctx">>)
    /\ UNCHANGED <<faults, loopVars, muxVars, runVars>>

\* Lines 28-35 without the avformat_close_input of line 32.
av_find_best_stream_NoClose ==
    /\ pc = "find_best_stream"
    /\ IF hasVideo
       THEN /\ pc' = "find_decoder"
            /\ UNCHANGED <<err, resVars>>
       ELSE FailReturn("NoVideoStreamError", <<>>)
    /\ UNCHANGED <<faults, loopVars, muxVars, runVars>>

\* Lines 28-35.
av_find_best_stream ==
    /\ pc = "find_best_stream"
    /\ IF hasVideo
       THEN /\ pc' = "find_decoder"
            /\ UNCHANGED <<err, resVars>>
       ELSE FailReturn("NoVideoStreamError", <<"in_fmt_ctx">>)
    /\ UNCHANGED <<faults, loopVars, muxVars, runVars>>

\* Lines 37-43.
avcodec_find_decoder ==
    /\ pc = "find_decoder"
    /\ \/ /\ pc' = "alloc_dec"
          /\ UNCHANGED <<err, resVars>>
       \/ FailReturn("DecoderNotFoundError", <<"in_fmt_ctx">>)
    /\ UNCHANGED <<faults, loopVars, muxVars, runVars>>

\* Lines 44-49.
avcodec_alloc_context3_dec ==
    /\ pc = "alloc_dec"
    /\ \/ /\ Acquire("dec_ctx")
          /\ pc' = "params_to_ctx"
          /\ UNCHANGED err
       \/ FailReturn("DecoderInitError", <<"in_fmt_ctx">>)
    /\ UNCHANGED <<faults, loopVars, muxVars, runVars>>

\* Lines 50-55.
avcodec_parameters_to_context ==
    /\ pc = "params_to_ctx"
    /\ \/ /\ pc' = "open_dec"
          /\ UNCHANGED <<err, resVars>>
       \/ FailReturn("DecoderInitError", <<"dec_ctx", "in_fmt_ctx">>)
    /\ UNCHANGED <<faults, loopVars, muxVars, runVars>>

\* Lines 56-61.
avcodec_open2_dec ==
    /\ pc = "open_dec"
    /\ \/ /\ pc' = "alloc_out"
          /\ UNCHANGED <<err, resVars>>
       \/ FailReturn("DecoderInitError", <<"dec_ctx", "in_fmt_ctx">>)
    /\ UNCHANGED <<faults, loopVars, muxVars, runVars>>

\* --------------------------------------------------- stage 2: sink builder
\* Lines 63-70.
avformat_alloc_output_context2 ==
    /\ pc = "alloc_out"
    /\ \/ /\ Acquire("out_fmt_ctx")
          /\ pc' = "find_encoder"
          /\ UNCHANGED err
       \/ FailReturn("OutputAllocError", <<"dec_ctx", "in_fmt_ctx">>)
    /\ UNCHANGED <<faults, loopVars, muxVars, runVars>>

\* Lines 72-80.
avcodec_find_encoder ==
    /\ pc = "find_encoder"
    /\ \/ /\ pc' = "new_stream"
          /\ UNCHANGED <<err, resVars>>
       \/ FailReturn("EncoderNotFoundError", <<"out_fmt_ctx", "dec_ctx", "in_fmt_ctx">>)
    /\ UNCHANGED <<faults, loopVars, muxVars, runVars>>

\* Lines 82-90.
avformat_new_stream ==
    /\ pc = "new_stream"
    /\ \/ /\ pc' = "alloc_enc"
          /\ UNCHANGED <<err, resVars>>
       \/ FailReturn("StreamAllocError", <<"out_fmt_ctx", "dec_ctx", "in_fmt_ctx">>)
    /\ UNCHANGED <<faults, loopVars, muxVars, runVars>>

\* Lines 92-112: the encoder context and its parameters; the time base is the
\* inverse of the frame rate of the input.
avcodec_alloc_context3_enc ==
    /\ pc = "alloc_enc"
    /\ \/ /\ Acquire("enc_ctx")
          /\ \E tb \in TimeBases : encTb' = tb
          /\ pc' = "open_enc"
          /\ UNCHANGED err
       \/ /\ FailReturn("EncoderAllocError", <<"out_fmt_ctx", "dec_ctx", "in_fmt_ctx">>)
          /\ UNCHANGED encTb
    /\ UNCHANGED <<faults, loopVars, header, trailer, outTb, tbSet, sinkLog, runVars>>

\* Lines 114-122 with the assignment of line 133 made before the encoder is
\* opened.
avcodec_open2_enc_TbFirst ==
    /\ pc = "open_enc"
    /\ outTb' = encTb
    /\ tbSet' = tbSet + 1
    /\ \/ /\ sinkLog' = sinkLog \o <<"time_base", "avcodec_open2">>
          /\ pc' = "params_from_ctx"
          /\ UNCHANGED <<err, resVars>>
       \/ /\ FailReturn("EncoderOpenError",
                        <<"enc_ctx", "out_fmt_ctx", "dec_ctx", "in_fmt_ctx">>)
          /\ sinkLog' = Append(sinkLog, "time_base")
    /\ UNCHANGED <<faults, loopVars, header, trailer, encTb, runVars>>

\* Lines 114-122.
avcodec_open2_enc ==
    /\ pc = "open_enc"
    /\ \/ /\ sinkLog' = Append(sinkLog, "avcodec_open2")
          /\ pc' = "params_from_ctx"
          /\ UNCHANGED <<err, resVars>>
       \/ /\ FailReturn("EncoderOpenError",
                        <<"enc_ctx", "out_fmt_ctx", "dec_ctx", "in_fmt_ctx">>)
          /\ UNCHANGED sinkLog
    /\ UNCHANGED <<faults, loopVars, header, trailer, encTb, outTb, tbSet, runVars>>

\* Lines 124-133: the parameter copy, then out_stream->time_base.
avcodec_parameters_from_context ==
    /\ pc = "params_from_ctx"
    /\ \/ /\ outTb' = encTb
          /\ tbSet' = tbSet + 1
          /\ sinkLog' = sinkLog \o <<"avcodec_parameters_from_context", "time_base">>
          /\ pc' = "avio_open"
          /\ UNCHANGED <<err, resVars>>
       \/ /\ FailReturn("ParameterCopyError",
                        <<"enc_ctx", "out_fmt_ctx", "dec_ctx", "in_fmt_ctx">>)
          /\ UNCHANGED <<outTb, tbSet, sinkLog>>
    /\ UNCHANGED <<faults, loopVars, header, trailer, encTb, runVars>>

\* Lines 135-145.
avio_open ==
    /\ pc = "avio_open"
    /\ IF AVFMT_NOFILE
       THEN /\ pc' = "write_header"
            /\ UNCHANGED <<err, resVars>>
       ELSE \/ /\ Acquire("pb")
               /\ pc' = "write_header"
               /\ UNCHANGED err
            \/ FailReturn("OutputIOError",
                          <<"enc_ctx", "out_fmt_ctx", "dec_ctx", "in_fmt_ctx">>)
    /\ UNCHANGED <<faults, loopVars, muxVars, runVars>>

\* Lines 147-157 with the result of avformat_write_header not tested.
avformat_write_header_Unchecked ==
    /\ pc = "write_header"
    /\ \/ /\ header' = header + 1
          /\ sinkLog' = Append(sinkLog, "avformat_write_header")
          /\ \E tb \in TimeBases \cup {outTb} : outTb' = tb
       \/ UNCHANGED <<header, outTb, sinkLog>>
    /\ pc' = "alloc_frames"
    /\ UNCHANGED <<err, resVars, faults, loopVars, trailer, encTb, tbSet, runVars>>

\* Lines 147-157.  The muxer may replace the time base of the stream when it
\* writes the header.
avformat_write_header ==
    /\ pc = "write_header"
    /\ \/ /\ header' = header + 1
          /\ sinkLog' = Append(sinkLog, "avformat_write_header")
          /\ \E tb \in TimeBases \cup {outTb} : outTb' = tb
          /\ pc' = "alloc_frames"
          /\ UNCHANGED <<err, resVars>>
       \/ /\ FailReturn("HeaderWriteError",
                        (IF AVFMT_NOFILE THEN <<>> ELSE <<"pb">>)
                        \o <<"enc_ctx", "out_fmt_ctx", "dec_ctx", "in_fmt_ctx">>)
          /\ UNCHANGED <<header, outTb, sinkLog>>
    /\ UNCHANGED <<faults, loopVars, trailer, encTb, tbSet, runVars>>

\* ----------------------------------------------- stage 3: frame converter
\* Lines 159-163: av_frame_alloc twice, av_packet_alloc twice.  Each returns
\* NULL when it fails and the code tests none of the four results.
Scratch == {"frame_decoded", "frame_converted", "packet_in", "packet_out"}

alloc_frames ==
    /\ pc = "alloc_frames"
    /\ \E got \in SUBSET Scratch :
          /\ h' = [r \in Resources |-> IF r \in got THEN "live" ELSE h[r]]
          /\ acq' = acq \cup got
    /\ pc' = "sws"
    /\ UNCHANGED <<relLog, faults, err, loopVars, muxVars, runVars>>

\* Lines 165-172.
sws_getContext ==
    /\ pc = "sws"
    /\ \/ /\ Acquire("sws_ctx")
          /\ pc' = "image_alloc"
          /\ UNCHANGED err
       \/ /\ err' = "ScalerInitError"
          /\ pc' = "cleanup"
          /\ UNCHANGED resVars
    /\ UNCHANGED <<faults, loopVars, muxVars, runVars>>

\* Lines 174-184.  frame_converted->data with frame_converted NULL is
\* undefined: the process faults, or the call fails before it stores through
\* the pointer.
av_image_alloc ==
    /\ pc = "image_alloc"
    /\ IF h["frame_converted"] = "null"
       THEN /\ faults' = faults \cup {<<"av_image_alloc", "frame_converted">>}
            /\ \/ /\ pc' = "crashed"
                  /\ UNCHANGED <<err, ret>>
               \/ /\ err' = "FrameBufferAllocError"
                  /\ ret' = "err"
                  /\ pc' = "cleanup"
            /\ UNCHANGED <<resVars, convPts>>
       ELSE /\ UNCHANGED faults
            /\ \/ /\ Acquire("image")
                  /\ ret' = "ok"
                  /\ convPts' = 0
                  /\ pc' = "read"
                  /\ UNCHANGED err
               \/ /\ err' = "FrameBufferAllocError"
                  /\ ret' = "err"
                  /\ pc' = "cleanup"
                  /\ UNCHANGED <<resVars, convPts>>
    /\ UNCHANGED <<nRead, nVideoIn, readFailed, pktIn, decPending, decReady, frameDec,
                   encHeld, encReady, pktOut, emitted, written, fatal, postFatal,
                   muxVars, runVars>>

\* ------------------------------------------------ stage 4: transcode loop
\* What happened after a fatal error of the loop.
Note(op) == postFatal' = IF fatal THEN postFatal \cup {op} ELSE postFatal

\* Line 187 without the stream test of line 188: every packet read goes to
\* the decoder.
av_read_frame_NoStreamTest ==
    /\ pc = "read"
    /\ Note("read")
    /\ IF h["packet_in"] = "null"
       THEN /\ faults' = faults \cup {<<"av_read_frame", "packet_in">>}
            /\ \/ /\ pc' = "crashed"
                  /\ UNCHANGED readFailed
               \/ /\ pc' = "trailer"
                  /\ readFailed' = TRUE
            /\ UNCHANGED <<nRead, nVideoIn, pktIn>>
       ELSE /\ UNCHANGED faults
            /\ \/ /\ nRead < MaxPackets
                  /\ nRead' = nRead + 1
                  /\ UNCHANGED readFailed
                  /\ \/ /\ \E p \in PtsVals :
                              pktIn' = [ref |-> TRUE, video |-> TRUE, pts |-> p]
                        /\ nVideoIn' = nVideoIn + 1
                        /\ pc' = "send_packet"
                     \/ /\ pktIn' = [ref |-> TRUE, video |-> FALSE, pts |-> 0]
                        /\ UNCHANGED nVideoIn
                        /\ pc' = "send_packet"
               \/ /\ pc' = "trailer"
                  /\ UNCHANGED <<nRead, nVideoIn, pktIn, readFailed>>
               \/ /\ nRead < MaxPackets
                  /\ pc' = "trailer"
                  /\ readFailed' = TRUE
                  /\ UNCHANGED <<nRead, nVideoIn, pktIn>>
    /\ UNCHANGED <<err, resVars, ret, decPending, decReady, frameDec, convPts, encHeld,
                   encReady, pktOut, emitted, written, fatal, muxVars, runVars>>

\* Lines 187-188: the loop condition and the stream test.  A negative result
\* (end of input, or a read error) leaves the loop for line 239.
av_read_frame ==
    /\ pc = "read"
    /\ Note("read")
    /\ IF h["packet_in"] = "null"
       THEN /\ faults' = faults \cup {<<"av_read_frame", "packet_in">>}
            /\ \/ /\ pc' = "crashed"
                  /\ UNCHANGED readFailed
               \/ /\ pc' = "trailer"
                  /\ readFailed' = TRUE
            /\ UNCHANGED <<nRead, nVideoIn, pktIn>>
       ELSE /\ UNCHANGED faults
            /\ \/ /\ nRead < MaxPackets
                  /\ nRead' = nRead + 1
                  /\ UNCHANGED readFailed
                  /\ \/ /\ \E p \in PtsVals :
                              pktIn' = [ref |-> TRUE, video |-> TRUE, pts |-> p]
                        /\ nVideoIn' = nVideoIn + 1
                        /\ pc' = "send_packet"
                     \/ /\ pktIn' = [ref |-> TRUE, video |-> FALSE, pts |-> 0]
                        /\ UNCHANGED nVideoIn
                        /\ pc' = "unref_in"
               \/ /\ pc' = "trailer"
                  /\ UNCHANGED <<nRead, nVideoIn, pktIn, readFailed>>
               \/ /\ nRead < MaxPackets
                  /\ pc' = "trailer"
                  /\ readFailed' = TRUE
                  /\ UNCHANGED <<nRead, nVideoIn, pktIn>>
    /\ UNCHANGED <<err, resVars, ret, decPending, decReady, frameDec, convPts, encHeld,
                   encReady, pktOut, emitted, written, fatal, muxVars, runVars>>

\* Lines 189-193.  On success the decoder holds one more frame and decides
\* how many of the frames it holds it is willing to emit.  On failure the
\* break leaves the while loop of line 187.
avcodec_send_packet ==
    /\ pc = "send_packet"
    /\ \/ /\ decPending' = Append(decPending, pktIn.pts)
          /\ \E n \in decReady..Len(decPending') : decReady' = n
          /\ ret' = "ok"
          /\ pc' = "dec_while"
          /\ UNCHANGED <<err, fatal>>
       \/ /\ ret' = "err"
          /\ err' = "DecodeSubmitError"
          /\ fatal' = TRUE
          /\ pc' = "trailer"
          /\ UNCHANGED <<decPending, decReady>>
    /\ UNCHANGED <<faults, resVars, nRead, nVideoIn, readFailed, pktIn, frameDec, convPts,
                   encHeld, encReady, pktOut, emitted, written, postFatal, muxVars,
                   runVars>>

\* Line 194: while (ret >= 0).
dec_while ==
    /\ pc = "dec_while"
    /\ pc' = IF ret = "ok" THEN "receive_frame" ELSE "unref_in"
    /\ UNCHANGED <<faults, err, resVars, loopVars, muxVars, runVars>>

\* Lines 195-201.
avcodec_receive_frame ==
    /\ pc = "receive_frame"
    /\ IF h["frame_decoded"] = "null"
       THEN /\ faults' = faults \cup {<<"avcodec_receive_frame", "frame_decoded">>}
            /\ \/ /\ pc' = "crashed"
                  /\ UNCHANGED <<ret, err, fatal>>
               \/ /\ ret' = "err"
                  /\ err' = "DecodeReceiveError"
                  /\ fatal' = TRUE
                  /\ pc' = "cleanup"
            /\ UNCHANGED <<decPending, decReady, frameDec>>
       ELSE /\ UNCHANGED faults
            /\ \/ /\ decReady > 0
                  /\ frameDec' = [ref |-> TRUE, pts |-> Head(decPending)]
                  /\ decPending' = Tail(decPending)
                  /\ decReady' = decReady - 1
                  /\ ret' = "ok"
                  /\ pc' = "sws_scale"
                  /\ UNCHANGED <<err, fatal>>
               \/ /\ decReady = 0
                  /\ ret' = "again"
                  /\ pc' = "unref_in"
                  /\ UNCHANGED <<err, fatal, decPending, decReady, frameDec>>
               \/ /\ ret' = "err"
                  /\ err' = "DecodeReceiveError"
                  /\ fatal' = TRUE
                  /\ pc' = "cleanup"
                  /\ UNCHANGED <<decPending, decReady, frameDec>>
    /\ UNCHANGED <<resVars, nRead, nVideoIn, readFailed, pktIn, convPts, encHeld,
                   encReady, pktOut, emitted, written, postFatal, muxVars, runVars>>

\* Lines 203-206.
sws_scale ==
    /\ pc = "sws_scale"
    /\ convPts' = frameDec.pts
    /\ pc' = "send_frame"
    /\ UNCHANGED <<faults, err, resVars, ret, nRead, nVideoIn, readFailed, pktIn,
                   decPending, decReady, frameDec, encHeld, encReady, pktOut, emitted,
                   written, fatal, postFatal, muxVars, runVars>>

\* Lines 208-213.
avcodec_send_frame ==
    /\ pc = "send_frame"
    /\ \/ /\ encHeld' = Append(encHeld, convPts)
          /\ \E n \in encReady..Len(encHeld') : encReady' = n
          /\ ret' = "ok"
          /\ pc' = "enc_while"
          /\ UNCHANGED <<err, fatal>>
       \/ /\ ret' = "err"
          /\ err' = "EncodeSubmitError"
          /\ fatal' = TRUE
          /\ pc' = "cleanup"
          /\ UNCHANGED <<encHeld, encReady>>
    /\ UNCHANGED <<faults, resVars, nRead, nVideoIn, readFailed, pktIn, decPending,
                   decReady, frameDec, convPts, pktOut, emitted, written, postFatal,
                   muxVars, runVars>>

\* Line 214: while (ret >= 0).
enc_while ==
    /\ pc = "enc_while"
    /\ pc' = IF ret = "ok" THEN "receive_packet" ELSE "unref_frame"
    /\ UNCHANGED <<faults, err, resVars, loopVars, muxVars, runVars>>

\* Lines 215-221.
avcodec_receive_packet ==
    /\ pc = "receive_packet"
    /\ IF h["packet_out"] = "null"
       THEN /\ faults' = faults \cup {<<"avcodec_receive_packet", "packet_out">>}
            /\ \/ /\ pc' = "crashed"
                  /\ UNCHANGED <<ret, err, fatal>>
               \/ /\ ret' = "err"
                  /\ err' = "EncodeReceiveError"
                  /\ fatal' = TRUE
                  /\ pc' = "cleanup"
            /\ UNCHANGED <<encHeld, encReady, pktOut, emitted>>
       ELSE /\ UNCHANGED faults
            /\ \/ /\ encReady > 0
                  /\ pktOut' = [ref |-> TRUE, pts |-> Head(encHeld), done |-> <<>>]
                  /\ emitted' = Append(emitted, Head(encHeld))
                  /\ encHeld' = Tail(encHeld)
                  /\ encReady' = encReady - 1
                  /\ ret' = "ok"
                  /\ pc' = "rescale_ts"
                  /\ UNCHANGED <<err, fatal>>
               \/ /\ encReady = 0
                  /\ ret' = "again"
                  /\ pc' = "unref_frame"
                  /\ UNCHANGED <<err, fatal, encHeld, encReady, pktOut, emitted>>
               \/ /\ ret' = "err"
                  /\ err' = "EncodeReceiveError"
                  /\ fatal' = TRUE
                  /\ pc' = "cleanup"
                  /\ UNCHANGED <<encHeld, encReady, pktOut, emitted>>
    /\ UNCHANGED <<resVars, nRead, nVideoIn, readFailed, pktIn, decPending, decReady,
                   frameDec, convPts, written, postFatal, muxVars, runVars>>

\* Lines 222-223.
rescale_ts ==
    /\ pc = "rescale_ts"
    /\ pktOut' = [pktOut EXCEPT !.pts = av_packet_rescale_ts(pktOut.pts, encTb, outTb),
                                !.done = Append(@, "rescale")]
    /\ pc' = "stream_index"
    /\ UNCHANGED <<faults, err, resVars, ret, nRead, nVideoIn, readFailed, pktIn,
                   decPending, decReady, frameDec, convPts, encHeld, encReady, emitted,
                   written, fatal, postFatal, muxVars, runVars>>

\* Line 224.
stream_index ==
    /\ pc = "stream_index"
    /\ pktOut' = [pktOut EXCEPT !.done = Append(@, "tag")]
    /\ pc' = "write_frame"
    /\ UNCHANGED <<faults, err, resVars, ret, nRead, nVideoIn, readFailed, pktIn,
                   decPending, decReady, frameDec, convPts, encHeld, encReady, emitted,
                   written, fatal, postFatal, muxVars, runVars>>

\* Lines 225-229.  The muxer takes the reference of the packet and leaves the
\* packet blank, also when the write fails.
av_interleaved_write_frame ==
    /\ pc = "write_frame"
    /\ Note("write")
    /\ \/ /\ written' = Append(written, pktOut.pts)
          /\ pktOut' = [pktOut EXCEPT !.ref = FALSE, !.done = Append(@, "write")]
          /\ pc' = "unref_out"
          /\ UNCHANGED <<err, fatal>>
       \/ /\ err' = "WriteError"
          /\ fatal' = TRUE
          /\ pktOut' = [pktOut EXCEPT !.ref = FALSE]
          /\ pc' = "cleanup"
          /\ UNCHANGED written
    /\ UNCHANGED <<faults, resVars, ret, nRead, nVideoIn, readFailed, pktIn, decPending,
                   decReady, frameDec, convPts, encHeld, encReady, emitted, muxVars,
                   runVars>>

\* Line 230 with the loop of line 214 an if: one packet per frame.
av_packet_unref_out_Once ==
    /\ pc = "unref_out"
    /\ pktOut' = BlankOut
    /\ pc' = "unref_frame"
    /\ ret' = "again"
    /\ UNCHANGED <<faults, err, resVars, nRead, nVideoIn, readFailed, pktIn,
                   decPending, decReady, frameDec, convPts, encHeld, encReady, emitted,
                   written, fatal, postFatal, muxVars, runVars>>

\* Line 230.
av_packet_unref_out ==
    /\ pc = "unref_out"
    /\ pktOut' = BlankOut
    /\ pc' = "enc_while"
    /\ UNCHANGED <<faults, err, resVars, ret, nRead, nVideoIn, readFailed, pktIn,
                   decPending, decReady, frameDec, convPts, encHeld, encReady, emitted,
                   written, fatal, postFatal, muxVars, runVars>>

\* Line 232 left out: the decoded frame keeps its reference.
av_frame_unref_Skipped ==
    /\ pc = "unref_frame"
    /\ pc' = "dec_while"
    /\ UNCHANGED <<faults, err, resVars, ret, nRead, nVideoIn, readFailed, pktIn,
                   decPending, decReady, frameDec, convPts, encHeld, encReady, pktOut,
                   emitted, written, fatal, postFatal, muxVars, runVars>>

\* Line 232.
av_frame_unref ==
    /\ pc = "unref_frame"
    /\ frameDec' = BlankFrame
    /\ pc' = "dec_while"
    /\ UNCHANGED <<faults, err, resVars, ret, nRead, nVideoIn, readFailed, pktIn,
                   decPending, decReady, convPts, encHeld, encReady, pktOut, emitted,
                   written, fatal, postFatal, muxVars, runVars>>

\* Line 235.
av_packet_unref_in ==
    /\ pc = "unref_in"
    /\ pktIn' = BlankIn
    /\ pc' = "read"
    /\ UNCHANGED <<faults, err, resVars, ret, nRead, nVideoIn, readFailed, decPending,
                   decReady, frameDec, convPts, encHeld, encReady, pktOut, emitted,
                   written, fatal, postFatal, muxVars, runVars>>

\* Lines 238-239 with the trailer written only when a packet was written.
av_write_trailer_IfWritten ==
    /\ pc = "trailer"
    /\ IF written # <<>>
       THEN Note("trailer") /\ trailer' = trailer + 1
       ELSE UNCHANGED <<postFatal, trailer>>
    /\ pc' = "cleanup"
    /\ UNCHANGED <<faults, err, resVars, ret, nRead, nVideoIn, readFailed, pktIn,
                   decPending, decReady, frameDec, convPts, encHeld, encReady, pktOut,
                   emitted, written, fatal, header, encTb, outTb, tbSet, sinkLog, runVars>>

\* Lines 238-239: the result of av_write_trailer is not looked at.
av_write_trailer ==
    /\ pc = "trailer"
    /\ Note("trailer")
    /\ trailer' = trailer + 1
    /\ pc' = "cleanup"
    /\ UNCHANGED <<faults, err, resVars, ret, nRead, nVideoIn, readFailed, pktIn,
                   decPending, decReady, frameDec, convPts, encHeld, encReady, pktOut,
                   emitted, written, fatal, header, encTb, outTb, tbSet, sinkLog, runVars>>

\* ------------------------------------------------------ stage 5: cleanup
\* Lines 242-254: the release calls after the label, in the order of the code.
CleanupOrder ==
    <<"sws_ctx", "image", "frame_converted", "frame_decoded", "packet_in",
      "packet_out", "pb", "enc_ctx", "dec_ctx", "in_fmt_ctx", "out_fmt_ctx">>

\* The release call of r is undefined on the handles hh:
\*   line 244 reads frame_converted->data with no test of frame_converted;
\*   line 249 reads out_fmt_ctx->oformat when out_fmt_ctx is not NULL, also
\*   when the context is already freed;
\*   a release function handed a pointer to a freed object frees it again.
StepFaults(hh, r) ==
    CASE r = "image" -> hh["frame_converted"] = "null"
      [] r = "pb"    -> hh["out_fmt_ctx"] = "dangling"
      [] OTHER       -> hh[r] = "dangling"

\* The release call of r releases something on the handles hh: the library
\* functions do nothing on NULL, sws_freeContext is guarded by if (sws_ctx),
\* avio_closep by out_fmt_ctx && !NOFILE.
StepReleases(hh, r) ==
    CASE r = "image" -> hh["frame_converted"] # "null" /\ hh["image"] # "null"
      [] r = "pb"    -> hh["out_fmt_ctx"] # "null" /\ ~AVFMT_NOFILE /\ hh["pb"] # "null"
      [] OTHER       -> hh[r] # "null"

\* The i-th release call on st = [h, relLog, faults, crashed].  An undefined
\* call ends the process when it is the crashAt-th call, and goes on otherwise.
CleanupStep(st, i, crashAt) ==
    LET r   == CleanupOrder[i]
        f   == StepFaults(st.h, r)
        rel == StepReleases(st.h, r)
    IN  [h       |-> IF rel THEN [st.h EXCEPT ![r] = AfterFree(r)] ELSE st.h,
         relLog  |-> IF rel THEN Append(st.relLog, r) ELSE st.relLog,
         faults  |-> IF f THEN st.faults \cup {<<"cleanup", r>>} ELSE st.faults,
         crashed |-> f /\ i = crashAt]

\* The release sequence from its i-th call on.
RECURSIVE RunCleanup(_, _, _)
RunCleanup(st, i, crashAt) ==
    IF i > Len(CleanupOrder) \/ st.crashed THEN st
    ELSE CHOOSE end \in {RunCleanup(st1, i + 1, crashAt) :
                          st1 \in {CleanupStep(st, i, crashAt)}} : TRUE

\* The calls that can be undefined: those on a handle that is not nulled when
\* it is freed, line 244 and line 249.  0 stands for no call.
CrashPoints ==
    {0} \cup {i \in 1..Len(CleanupOrder) : CleanupOrder[i] \in ByValue \cup {"image", "pb"}}

\* Lines 241-255: the label cleanup and the return.
cleanup ==
    /\ pc = "cleanup"
    /\ pass' = pass + 1
    /\ \E crashAt \in CrashPoints :
          \E st \in {RunCleanup([h |-> h, relLog |-> relLog, faults |-> faults,
                                  crashed |-> FALSE], 1, crashAt)} :
              /\ h' = st.h
              /\ relLog' = st.relLog
              /\ faults' = st.faults
              /\ pc' = IF st.crashed THEN "crashed" ELSE "returned"
              /\ frameDec' = IF st.h["frame_decoded"] = "live" THEN frameDec
                             ELSE BlankFrame
              /\ pktIn' = IF st.h["packet_in"] = "live" THEN pktIn ELSE BlankIn
              /\ pktOut' = IF st.h["packet_out"] = "live" THEN pktOut ELSE BlankOut
    /\ UNCHANGED <<acq, err, ret, nRead, nVideoIn, readFailed, decPending, decReady,
                   convPts, encHeld, encReady, emitted, written, fatal, postFatal,
                   muxVars, hasVideo, snap>>

\* The release sequence of lines 241-255 entered a second time on the
\* handles the first time left.
cleanup_again ==
    /\ pc = "returned"
    /\ pass = 1
    /\ snap' = [h |-> h, relLog |-> relLog, faults |-> faults]
    /\ pc' = "cleanup"
    /\ UNCHANGED <<faults, err, resVars, loopVars, muxVars, hasVideo, pass>>

\* ---------------------------------------------------------- specification
Next ==
    \/ avformat_open_input
    \/ avformat_find_stream_info
    \/ av_find_best_stream
    \/ avcodec_find_decoder
    \/ avcodec_alloc_context3_dec
    \/ avcodec_parameters_to_context
    \/ avcodec_open2_dec
    \/ avformat_alloc_output_context2
    \/ avcodec_find_encoder
    \/ avformat_new_stream
    \/ avcodec_alloc_context3_enc
    \/ avcodec_open2_enc
    \/ avcodec_parameters_from_context
    \/ avio_open
    \/ avformat_write_header
    \/ alloc_frames
    \/ sws_getContext
    \/ av_image_alloc
    \/ av_read_frame
    \/ avcodec_send_packet
    \/ dec_while
    \/ avcodec_receive_frame
    \/ sws_scale
    \/ avcodec_send_frame
    \/ enc_while
    \/ avcodec_receive_packet
    \/ rescale_ts
    \/ stream_index
    \/ av_interleaved_write_frame
    \/ av_packet_unref_out
    \/ av_frame_unref
    \/ av_packet_unref_in
    \/ av_write_trailer
    \/ cleanup

Spec == Init /\ [][Next]_vars

\* The routine is sequential code on one thread: it always takes its next
\* step.
FairSpec == Spec /\ WF_vars(Next)

\* The routine, with its release sequence run a second time after it.
NextTwice == Next \/ cleanup_again
SpecTwice == Init /\ [][NextTwice]_vars

\* ------------------------------------------------------------ vocabulary
\* How many times r was released.
Rel(r) == Count(r, relLog)

\* Every acquired resource was released once and no other was released.
ReleasedExactly == \A r \in Resources : Rel(r) = IF r \in acq THEN 1 ELSE 0

\* The call is over: it returned, or the process ended in a fault.
Ended == pc \in {"returned", "crashed"}

\* ----------------------------------------------------------------- claims
\* C1: on every exit path every resource acquired before the exit has been
\* released exactly once when the call is over, and no resource that was never
\* acquired is released.
C1_ReleasedOnEveryExit == Ended => ReleasedExactly

\* C2: after a fatal error inside the loop no further packet is read, no
\* further packet is written and no trailer is written.
C2_NothingAfterFatal == fatal => postFatal = {}

\* C3: a run without error writes as many packets as the input has video
\* frames, give or take one.
C3_FrameCount ==
    (pc = "returned" /\ err = "none" /\ ~readFailed /\ faults = {})
        => (Len(written) - nVideoIn) \in -1..1

\* C4: no release step of the cleanup reads through or releases a handle that
\* is NULL or was never acquired.
C4_CleanupChecksHandles ==
    /\ \A f \in faults : f[1] # "cleanup"
    /\ \A r \in Resources : Rel(r) > 0 => r \in acq

\* C5: a second run of the release sequence, after a first run without fault,
\* releases nothing again, touches no released resource and leaves the handles
\* as they were.
C5_CleanupIdempotent ==
    (pass = 2 /\ snap.faults = {})
        => (h = snap.h /\ relLog = snap.relLog /\ faults = snap.faults)

\* C6: with no video stream in the input the call gets no further than stream
\* selection and fails; it never allocates the output context, never opens the
\* output I/O handle, writes nothing, and has closed the input context when it
\* returns.
C6_NoVideoStream ==
    ~hasVideo =>
        /\ pc \in {"open_input", "find_stream_info", "find_best_stream", "returned"}
        /\ "out_fmt_ctx" \notin acq
        /\ "pb" \notin acq
        /\ header = 0 /\ written = <<>> /\ trailer = 0
        /\ pc = "returned" =>
              /\ err \in {"OpenInputError", "StreamProbeError", "NoVideoStreamError"}
              /\ h["in_fmt_ctx"] = "null"
              /\ Rel("in_fmt_ctx") = IF "in_fmt_ctx" \in acq THEN 1 ELSE 0

\* The call reached stream selection on an input without video and returned.
C6_Witness ==
    ~hasVideo /\ pc = "returned" /\ err = "NoVideoStreamError" /\ Rel("in_fmt_ctx") = 1

\* C7: the rescale keeps the order of the timestamps: of two packets written,
\* the one the encoder gave the smaller or equal timestamp has the smaller or
\* equal timestamp in the output; and the frame submitted to the encoder
\* carries the timestamp of the decoded frame.
C7_RescaleKeepsOrder ==
    /\ Len(written) <= Len(emitted)
    /\ \A i, j \in 1..Len(written) :
          (i < j /\ emitted[i] <= emitted[j]) => written[i] <= written[j]
    /\ pc = "send_frame" => convPts = frameDec.pts

\* Two packets written, the encoder's timestamps rising, one of them negative,
\* and the two time bases different.
C7_Witness ==
    /\ Len(written) = 2
    /\ emitted[1] < emitted[2]
    /\ emitted[1] = -1
    /\ encTb # outTb

\* C8: the call returns in the end, and when it has returned every acquired
\* resource has been released.
C8_ReturnsAfterRelease ==
    /\ <>(pc = "returned")
    /\ [](pc = "returned" => ReleasedExactly)

\* C9: when the loop goes back to read the next packet, the decoder has no
\* frame left that it is willing to emit.
C9_DecoderDrained == pc = "read" => decReady = 0

\* C10: a frame is submitted to the encoder only when the encoder has nothing
\* left it is willing to emit, every packet it emitted was written and
\* packet_out is unreferenced; a packet is
\* unreferenced after it was rescaled, tagged and written, in this order; the
\* drain ends on not-ready, which is no error.
C10_EncoderDrained ==
    /\ pc = "send_frame" =>
          (encReady = 0 /\ pktOut = BlankOut /\ Len(written) = Len(emitted))
    /\ pc = "write_frame" => pktOut.done = <<"rescale", "tag">>
    /\ pc = "unref_out" => pktOut.done = <<"rescale", "tag", "write">>
    /\ pc = "unref_frame" =>
          (encReady = 0 /\ pktOut = BlankOut /\ ret = "again" /\ err = "none" /\ ~fatal)

\* One frame made the encoder emit two packets; both were written and the
\* drain ended.
C10_Witness ==
    pc = "unref_frame" /\ Len(written) = 2 /\ nVideoIn = 2 /\ Len(emitted) = 2

\* C11: packets are written only after the one successful header write and
\* before the trailer, with the output I/O handle open; the header is written
\* once, after the output stream is configured; the trailer at most once, and
\* nothing follows it but the cleanup.
C11_WritesBetweenHeaderAndTrailer ==
    /\ header <= 1 /\ trailer <= 1
    /\ header = 1 => (tbSet = 1 /\ {"out_fmt_ctx", "enc_ctx", "pb"} \subseteq acq)
    /\ Len(written) > 0 => header = 1
    /\ pc = "write_frame" =>
          (header = 1 /\ trailer = 0 /\ h["pb"] = "live" /\ h["out_fmt_ctx"] = "live")
    /\ trailer = 1 => (header = 1 /\ pc \in {"cleanup", "returned", "crashed"})
    /\ Rel("pb") > 0 => pc \in {"returned", "crashed"}

\* Packets were written, then the trailer, then the I/O handle was closed.
C11_Witness ==
    pc = "returned" /\ Len(written) = 2 /\ trailer = 1 /\ Rel("pb") = 1

\* Position of the first release of r in the release log, 0 when r was not
\* released.
Pos(r) ==
    IF r \in Range(relLog)
    THEN CHOOSE i \in 1..Len(relLog) :
             relLog[i] = r /\ \A j \in 1..(i - 1) : relLog[j] # r
    ELSE 0

Before(a, b) == Pos(a) > 0 /\ Pos(a) < Pos(b)

\* C12: whenever the Output Context has been released, the Input Context was
\* closed before it, and so was the output I/O handle if it was opened.
C12_OutputContextLast ==
    Pos("out_fmt_ctx") > 0 =>
        /\ Before("in_fmt_ctx", "out_fmt_ctx")
        /\ "pb" \in acq => Before("pb", "out_fmt_ctx")

\* C13: when the call has ended, the output I/O handle was closed exactly
\* once if it had been opened, and no close was made if it had not.
C13_IoHandleClosedOnce ==
    Ended => Rel("pb") = (IF "pb" \in acq THEN 1 ELSE 0)

\* The order in which the steps of sink setup are written in lines 114-147.
SinkOrder ==
    <<"avcodec_open2", "avcodec_parameters_from_context", "time_base",
      "avformat_write_header">>

\* C14: the steps of sink setup succeed in the order encoder open, parameter
\* copy, time base, header; the code assigns the time base of the output
\* stream at most once, exactly once when the header is written, and never
\* when the encoder open or the parameter copy failed.
C14_TimeBaseAssignedOnce ==
    /\ Len(sinkLog) <= Len(SinkOrder)
    /\ sinkLog = SubSeq(SinkOrder, 1, Len(sinkLog))
    /\ tbSet = Count("time_base", sinkLog)
    /\ tbSet = 0 <=> outTb = NoTb
    /\ header = 1 => tbSet = 1
    /\ pc \in {"avio_open", "write_header"} => tbSet = 1
    /\ err \in {"EncoderOpenError", "ParameterCopyError"} => tbSet = 0

\* The whole call succeeded after the four steps of sink setup.
C14_Witness ==
    pc = "returned" /\ err = "none" /\ sinkLog = SinkOrder /\ tbSet = 1

\* The steps of lines 189-232, which handle one packet given to the decoder.
DecodeSteps ==
    {"send_packet", "dec_while", "receive_frame", "sws_scale", "send_frame",
     "enc_while", "receive_packet", "rescale_ts", "stream_index", "write_frame",
     "unref_out", "unref_frame"}

\* C15: a packet of another stream is only ever unreferenced: the decode,
\* convert, encode and write steps run only with a packet of the selected
\* video stream in hand, and the decoder and the output never hold more than
\* the video packets that were read.
C15_OnlyVideoDecoded ==
    /\ pc \in DecodeSteps => (pktIn.ref /\ pktIn.video)
    /\ (pktIn.ref /\ ~pktIn.video) => pc = "unref_in"
    /\ Len(decPending) + Len(encHeld) + Len(emitted) <= nVideoIn
    /\ Len(written) <= nVideoIn

\* A video packet was decoded, then a packet of another stream was read and
\* is about to be dropped with nothing new given to the decoder.
C15_Witness ==
    /\ pc = "unref_in" /\ pktIn.ref /\ ~pktIn.video
    /\ nRead = 2 /\ nVideoIn = 1 /\ Len(written) = 1

\* No call has failed and the decoder has not emitted a frame: every video
\* packet read so far is in hand for line 189 or still held by the decoder.
NoFrameRun ==
    /\ err = "none" /\ ~readFailed /\ faults = {}
    /\ Len(decPending) + (IF pc = "send_packet" THEN 1 ELSE 0) = nVideoIn

\* C16: in a run where the decoder emits no frame, nothing is converted,
\* submitted to the encoder or written; after the loop the trailer has been
\* written, and when the call has returned every acquired resource has been
\* released once.
C16_NoFrameRunEndsClean ==
    NoFrameRun =>
        /\ ~frameDec.ref /\ encHeld = <<>> /\ emitted = <<>> /\ written = <<>>
        /\ pc \notin {"sws_scale", "send_frame", "enc_while", "receive_packet",
                      "rescale_ts", "stream_index", "write_frame", "unref_out",
                      "unref_frame", "crashed"}
        /\ pc \in {"cleanup", "returned"} => (header = 1 /\ trailer = 1)
        /\ pc = "returned" => ReleasedExactly

\* The call returned after two video packets for which the decoder emitted
\* nothing.
C16_Witness ==
    /\ NoFrameRun /\ pc = "returned" /\ nVideoIn = 2 /\ Len(decPending) = 2
    /\ trailer = 1 /\ written = <<>> /\ ReleasedExactly

\* The three buffers the loop reuses for every packet.
LoopBuffers == {"packet_in", "packet_out", "frame_decoded"}

\* C17: when the loop is about to read a packet, the input packet, the output
\* packet and the decoded frame hold no reference; before the cleanup none of
\* the three handles has been freed.
C17_BuffersUnreferencedAtRead ==
    /\ pc = "read" => (~pktIn.ref /\ ~pktOut.ref /\ ~frameDec.ref)
    /\ pass = 0 => \A r \in LoopBuffers : Rel(r) = 0 /\ h[r] \in {"live", "null"}

\* The loop is back at the read after a packet went through all three
\* buffers and was written.
C17_Witness ==
    /\ pc = "read" /\ nRead = 1 /\ Len(written) = 1
    /\ \A r \in LoopBuffers : h[r] = "live"

\* C18: no call is made on a handle that is NULL or already released; the
\* decoder is only called with the Input Context and the Decoder Context
\* live; the Decoder Context is released before the Input Context.
C18_OnlyLiveResourcesUsed ==
    /\ faults = {}
    /\ pc \in {"send_packet", "receive_frame"} =>
          (h["in_fmt_ctx"] = "live" /\ h["dec_ctx"] = "live")
    /\ (Pos("in_fmt_ctx") > 0 /\ "dec_ctx" \in acq) => Before("dec_ctx", "in_fmt_ctx")

====
